---- MODULE Spec2Model ----
(***************************************************************************)
(* Fixed-point power engine of solidity/python/Formula/Power/__init__.py:  *)
(* calculateBestPrecision, power, ln, lnUpperBound32, fixedLoge,           *)
(* fixedLog2, floorLog2, fixedExp, fixedExpUnsafe and safeMul.             *)
(*                                                                         *)
(* The program computes on Python's unbounded integers, with "/" the floor *)
(* division of two ints.  TLC's integers are 32 bits wide, so an unbounded *)
(* natural is modelled as the sequence of its base-2^15 digits, least      *)
(* significant first and without leading zeros (0 is << >>); the           *)
(* arithmetic below is exact on that representation.                       *)
(***************************************************************************)
EXTENDS Integers, Sequences, FiniteSets, TLC

VARIABLES pc, fn, args, ret

vars == <<pc, fn, args, ret>>

----------------------------------------------------------------------------
(* Python int arithmetic on digit sequences *)

Base == 2^15

Limb(a, i) == IF i >= 1 /\ i <= Len(a) THEN a[i] ELSE 0

\* a without its leading zero digits
Trim(a) ==
    IF \A i \in 1..Len(a) : a[i] = 0 THEN << >>
    ELSE LET n == Len(a)
             k == CHOOSE k \in 0..(n - 1) :
                      a[n - k] # 0 /\ \A m \in 0..(k - 1) : a[n - m] = 0
         IN  IF k = 0 THEN a ELSE SubSeq(a, 1, n - k)

\* F(15, ... F(1, F(0, s)) ...), each value computed before the next is asked for
Chain(F(_, _), s) ==
    LET s1  == F(0, s)
        s2  == F(1, s1)
        s3  == F(2, s2)
        s4  == F(3, s3)
        s5  == F(4, s4)
        s6  == F(5, s5)
        s7  == F(6, s6)
        s8  == F(7, s7)
        s9  == F(8, s8)
        s10 == F(9, s9)
        s11 == F(10, s10)
        s12 == F(11, s11)
        s13 == F(12, s12)
        s14 == F(13, s13)
        s15 == F(14, s14)
    IN  IF /\ s1 = s1
           /\ s2 = s2
           /\ s3 = s3
           /\ s4 = s4
           /\ s5 = s5
           /\ s6 = s6
           /\ s7 = s7
           /\ s8 = s8
           /\ s9 = s9
           /\ s10 = s10
           /\ s11 = s11
           /\ s12 = s12
           /\ s13 = s13
           /\ s14 = s14
           /\ s15 = s15
        THEN F(15, s15) ELSE s

\* F applied to the value v
Bind(v, F(_)) == F(v)

\* for i in range(lo, lo + n): s = Body(i, s), for n <= 16
Run16(Body(_, _), lo, n, s) ==
    Chain(LAMBDA k, t : IF k < n THEN Body(lo + k, t) ELSE t, s)

\* the same for n <= 256, in runs of 16
Run256(Body(_, _), lo, n, s) ==
    Chain(LAMBDA j, u : IF 16 * j >= n THEN u
                        ELSE Run16(Body, lo + 16 * j, n - 16 * j, u), s)

\* the same for n <= 4096, in runs of 256
Run4096(Body(_, _), lo, n, s) ==
    Chain(LAMBDA h, w : IF 256 * h >= n THEN w
                        ELSE Run256(Body, lo + 256 * h, n - 256 * h, w), s)

\* for i in range(lo, lo + n): s = Body(i, s)
Iterate(Body(_, _), lo, n, s) ==
    IF s # s THEN s
    ELSE IF n <= 16 THEN Run16(Body, lo, n, s)
    ELSE IF n <= 256 THEN Run256(Body, lo, n, s)
    ELSE Run4096(Body, lo, n, s)

\* the digit sequence of a machine-sized natural
Big(n) ==
    IF n = 0 THEN << >>
    ELSE IF n < Base THEN <<n>>
    ELSE IF n < Base * Base THEN <<n % Base, n \div Base>>
    ELSE <<n % Base, (n \div Base) % Base, n \div (Base * Base)>>

\* the carry (borrow) out of digit i, for digit sums s in 0..2*Base-2 (digit
\* differences in 1-Base..Base-1 when neutral = 0)
Carry(s, i, neutral) ==
    IF i = 0 THEN 0
    ELSE IF neutral = 0 /\ s[i] < 0 THEN 1
    ELSE IF neutral # 0 /\ s[i] > neutral THEN 1
    ELSE IF s[i] # neutral THEN 0
    ELSE IF \E j \in 1..(i - 1) :
              /\ IF neutral = 0 THEN s[j] < 0 ELSE s[j] > neutral
              /\ \A k \in (j + 1)..(i - 1) : s[k] = neutral
         THEN 1 ELSE 0

\* a + b
Add(a, b) ==
    IF b = << >> THEN a
    ELSE IF a = << >> THEN b
    ELSE LET n == IF Len(a) > Len(b) THEN Len(a) ELSE Len(b)
             s == [i \in 1..n |-> Limb(a, i) + Limb(b, i)]
         IN  Trim([i \in 1..(n + 1) |->
                     (Limb(s, i) + Carry(s, i - 1, Base - 1)) % Base])

\* a - b for a >= b
Sub(a, b) ==
    IF b = << >> THEN a
    ELSE LET s == [i \in 1..Len(a) |-> a[i] - Limb(b, i)]
         IN  Trim([i \in 1..Len(a) |->
                     (s[i] - Carry(s, i - 1, 0) + Base) % Base])

\* -1, 0, 1 as a < b, a = b, a > b
Cmp(a, b) ==
    IF Len(a) < Len(b) THEN -1
    ELSE IF Len(a) > Len(b) THEN 1
    ELSE IF \A i \in 1..Len(a) : a[i] = b[i] THEN 0
    ELSE LET n == Len(a)
             k == CHOOSE k \in 0..(n - 1) :
                      a[n - k] # b[n - k] /\ \A m \in 0..(k - 1) : a[n - m] = b[n - m]
         IN  IF a[n - k] < b[n - k] THEN -1 ELSE 1

Lt(a, b) == Cmp(a, b) < 0
Le(a, b) == Cmp(a, b) <= 0

\* a * m * Base^z for one digit m
MulDigit(a, m, z) ==
    IF m = 0 \/ a = << >> THEN << >>
    ELSE Add([i \in 1..(Len(a) + z) |-> IF i <= z THEN 0 ELSE (a[i - z] * m) % Base],
             [i \in 1..(Len(a) + z + 1) |->
                 IF i <= z + 1 THEN 0 ELSE (a[i - z - 1] * m) \div Base])

\* a * b for Len(a) >= Len(b), one digit of b at a time
MulLong(a, b) ==
    Iterate(LAMBDA j, acc : Add(acc, MulDigit(a, b[j], j - 1)), 1, Len(b), << >>)

\* a * b
Mul(a, b) ==
    IF a = << >> \/ b = << >> THEN << >>
    ELSE MulLong(IF Len(a) >= Len(b) THEN a ELSE b, IF Len(a) >= Len(b) THEN b ELSE a)

\* a << s
Shl(a, s) ==
    IF a = << >> THEN a
    ELSE LET q == s \div 15
             r == s % 15
             m == 2^r
             d == 2^(15 - r)
         IN  Trim([i \in 1..(Len(a) + q + 1) |->
                     IF i <= q THEN 0
                     ELSE ((Limb(a, i - q) * m) % Base) + (Limb(a, i - q - 1) \div d)])

\* a >> s
Shr(a, s) ==
    LET q == s \div 15
        r == s % 15
        m == 2^r
        d == 2^(15 - r)
    IN  IF q >= Len(a) THEN << >>
        ELSE Trim([i \in 1..(Len(a) - q) |->
                     (a[i + q] \div m) + ((Limb(a, i + q + 1) % m) * d)])

\* n.bit_length() of a machine-sized natural
BitsOf(n) ==
    IF n = 0 THEN 0 ELSE CHOOSE k \in 1..31 : 2^(k - 1) <= n /\ (k = 31 \/ n < 2^k)

\* a.bit_length()
BitLen(a) == IF a = << >> THEN 0 ELSE 15 * (Len(a) - 1) + BitsOf(a[Len(a)])

\* floor(a / d) for d # 0: long division, one digit of a at a time from the
\* top, each quotient digit found bit by bit against ds[k] = d * 2^(k-1)
DivBit(ds, j, s) ==
    LET k == 16 - j
    IN  IF Le(ds[k], s.r) THEN [q |-> s.q + 2^(k - 1), r |-> Sub(s.r, ds[k])] ELSE s

DivDigit(a, ds, j, s) ==
    Bind(Iterate(LAMBDA jj, t : DivBit(ds, jj, t), 1, 15,
                 [q |-> 0, r |-> Trim(<<a[Len(a) + 1 - j]>> \o s.r)]),
         LAMBDA dg : [q |-> <<dg.q>> \o s.q, r |-> dg.r])

\* d = 2^(bit_length(d) - 1)
IsPowerOfTwo(d) ==
    /\ d # << >>
    /\ \A i \in 1..(Len(d) - 1) : d[i] = 0
    /\ 2^(BitsOf(d[Len(d)]) - 1) = d[Len(d)]

Div(a, d) ==
    IF Lt(a, d) THEN << >>
    ELSE IF IsPowerOfTwo(d) THEN Shr(a, BitLen(d) - 1)
    ELSE LET ds == [k \in 1..15 |-> Shl(d, k - 1)]
         IN  Trim(Iterate(LAMBDA j, s : DivDigit(a, ds, j, s), 1, Len(a),
                          [q |-> << >>, r |-> << >>]).q)

\* a hex literal, given as its 16-bit groups, most significant first
Hex(g) ==
    LET Group(q) == IF q < Len(g) THEN g[Len(g) - q] ELSE 0
        Digit(j) == LET q == (15 * (j - 1)) \div 16
                        r == (15 * (j - 1)) % 16
                    IN  IF r = 0 THEN Group(q) % Base
                        ELSE (Group(q) \div 2^r) + (Group(q + 1) % 2^(r - 1)) * 2^(16 - r)
    IN  Trim([j \in 1..((16 * Len(g)) \div 15 + 1) |-> Digit(j)])

----------------------------------------------------------------------------
(* The program.  A call returns [ok, at, val, peak]: ok is FALSE when an     *)
(* assert failed (AssertionError), at names the function whose assert it     *)
(* was, val is the value returned and peak the bit length of the largest     *)
(* value the call computed on the way.                                       *)

ONE == Big(1)
TWO == Big(2)
MAX_FIXED_EXP_32 == Hex(<<\h0038, \h6bfd, \hba29>>)  \* 0x386bfdba29

WordBits == 256

Ret(v, pk) == [ok |-> TRUE, at |-> "", val |-> v, peak |-> pk]
Raise(f)   == [ok |-> FALSE, at |-> f, val |-> << >>, peak |-> 0]

Max(m, n) == IF m >= n THEN m ELSE n

\* t |= s for s a power of two
BitOr(t, s) == IF (t \div s) % 2 = 1 THEN t ELSE t + s

\* floorLog2 comparing with > where the source compares with >=
floorLog2Strict(_n) ==
    Iterate(LAMBDA k, st :
                LET s == 2^(8 - 1 - k)
                IN  IF Lt(Shl(ONE, s), st.n)
                    THEN [n |-> Shr(st.n, s), t |-> BitOr(st.t, s)]
                    ELSE st,
            0, 8, [n |-> _n, t |-> 0]).t

floorLog2(_n) ==
    Iterate(LAMBDA k, st :
                LET s == 2^(8 - 1 - k)
                IN  IF Le(Shl(ONE, s), st.n)
                    THEN [n |-> Shr(st.n, s), t |-> BitOr(st.t, s)]
                    ELSE st,
            0, 8, [n |-> _n, t |-> 0]).t

\* fixedLog2 halving while _x >= fixedOne where the source halves while
\* _x >= fixedTwo
fixedLog2HalvesOne(_x, _precision) ==
    LET fixedOne == Shl(ONE, _precision)
        fixedTwo == Shl(TWO, _precision)
    IN  IF ~Le(fixedOne, _x) THEN Raise("fixedLog2")
        ELSE Bind(
            \* while (_x >= fixedTwo): at most bit_length(_x) halvings
            Iterate(LAMBDA n, st :
                        IF Le(fixedOne, st.x)
                        THEN [st EXCEPT !.x = Shr(st.x, 1), !.hi = Add(st.hi, fixedOne)]
                        ELSE st,
                    0, BitLen(_x), [x |-> _x, hi |-> << >>, peak |-> 0]),
            LAMBDA whole :
        Bind(
            Iterate(LAMBDA i, st :
                        Bind(Mul(st.x, st.x), LAMBDA sq :
                        Bind(Div(sq, fixedOne), LAMBDA x1 :
                            IF Le(fixedTwo, x1)
                            THEN [x    |-> Shr(x1, 1),
                                  hi   |-> Add(st.hi, Shl(ONE, _precision - 1 - i)),
                                  peak |-> Max(st.peak, BitLen(sq))]
                            ELSE [x |-> x1, hi |-> st.hi,
                                  peak |-> Max(st.peak, BitLen(sq))])),
                    0, _precision, whole),
            LAMBDA frac : Ret(frac.hi, Max(frac.peak, BitLen(frac.hi)))))

fixedLog2(_x, _precision) ==
    LET fixedOne == Shl(ONE, _precision)
        fixedTwo == Shl(TWO, _precision)
    IN  IF ~Le(fixedOne, _x) THEN Raise("fixedLog2")
        ELSE Bind(
            \* while (_x >= fixedTwo): at most bit_length(_x) halvings
            Iterate(LAMBDA n, st :
                        IF Le(fixedTwo, st.x)
                        THEN [st EXCEPT !.x = Shr(st.x, 1), !.hi = Add(st.hi, fixedOne)]
                        ELSE st,
                    0, BitLen(_x), [x |-> _x, hi |-> << >>, peak |-> 0]),
            LAMBDA whole :
        Bind(
            Iterate(LAMBDA i, st :
                        Bind(Mul(st.x, st.x), LAMBDA sq :
                        Bind(Div(sq, fixedOne), LAMBDA x1 :
                            IF Le(fixedTwo, x1)
                            THEN [x    |-> Shr(x1, 1),
                                  hi   |-> Add(st.hi, Shl(ONE, _precision - 1 - i)),
                                  peak |-> Max(st.peak, BitLen(sq))]
                            ELSE [x |-> x1, hi |-> st.hi,
                                  peak |-> Max(st.peak, BitLen(sq))])),
                    0, _precision, whole),
            LAMBDA frac : Ret(frac.hi, Max(frac.peak, BitLen(frac.hi)))))

LN2_56 == Hex(<<\h00b1, \h7217, \hf7d1, \hcf78>>)  \* 0xb17217f7d1cf78

fixedLoge(_x, _precision) ==
    IF ~Le(Shl(ONE, _precision), _x) THEN Raise("fixedLoge")
    ELSE Bind(fixedLog2(_x, _precision), LAMBDA log2 :
             IF ~log2.ok THEN log2
             ELSE Bind(Mul(log2.val, LN2_56), LAMBDA prod :
                      Ret(Shr(prod, 56), Max(log2.peak, BitLen(prod)))))

\* ln without the two assertions against MAX_VAL
lnNoHeadroom(_numerator, _denominator, _precision) ==
    LET shifted == Shl(_numerator, _precision)
    IN  IF ~Le(_denominator, _numerator) THEN Raise("ln")
        ELSE IF _denominator = << >> \/ _numerator = << >> THEN Raise("ln")
        ELSE Bind(fixedLoge(Div(shifted, _denominator), _precision), LAMBDA loge :
                 IF ~loge.ok THEN loge
                 ELSE Ret(loge.val, Max(loge.peak, BitLen(shifted))))

ln(_numerator, _denominator, _precision) ==
    LET MAX_VAL == Shl(ONE, WordBits - _precision)
        shifted == Shl(_numerator, _precision)
    IN  IF ~Le(_denominator, _numerator) THEN Raise("ln")
        ELSE IF _denominator = << >> \/ _numerator = << >> THEN Raise("ln")
        ELSE IF ~Lt(_numerator, MAX_VAL) THEN Raise("ln")
        ELSE IF ~Lt(_denominator, MAX_VAL) THEN Raise("ln")
        ELSE Bind(fixedLoge(Div(shifted, _denominator), _precision), LAMBDA loge :
                 IF ~loge.ok THEN loge
                 ELSE Ret(loge.val, Max(loge.peak, BitLen(shifted))))

LN2_32_CEIL == Hex(<<\hb172, \h17f8>>)  \* 0xb17217f8

\* lnUpperBound32 without the + 1 of its general branch
lnUpperBound32Floor(_baseN, _baseD) ==
    IF ~Lt(_baseD, _baseN) THEN Raise("lnUpperBound32")
    ELSE Bind(Mul(_baseN, Big(100000)), LAMBDA scaledBaseN :
             IF Le(scaledBaseN, Mul(_baseD, Big(271828))) THEN Ret(Shl(Big(1), 32), 0)
             ELSE IF Le(scaledBaseN, Mul(_baseD, Big(738905))) THEN Ret(Shl(Big(2), 32), 0)
             ELSE IF Le(scaledBaseN, Mul(_baseD, Big(2008553))) THEN Ret(Shl(Big(3), 32), 0)
             ELSE Ret(Mul(Big(floorLog2(Div(Sub(_baseN, ONE), _baseD))), LN2_32_CEIL), 0))

lnUpperBound32(_baseN, _baseD) ==
    IF ~Lt(_baseD, _baseN) THEN Raise("lnUpperBound32")
    ELSE Bind(Mul(_baseN, Big(100000)), LAMBDA scaledBaseN :
             IF Le(scaledBaseN, Mul(_baseD, Big(271828))) THEN Ret(Shl(Big(1), 32), 0)
             ELSE IF Le(scaledBaseN, Mul(_baseD, Big(738905))) THEN Ret(Shl(Big(2), 32), 0)
             ELSE IF Le(scaledBaseN, Mul(_baseD, Big(2008553))) THEN Ret(Shl(Big(3), 32), 0)
             ELSE Ret(Mul(Big(floorLog2(Div(Sub(_baseN, ONE), _baseD)) + 1), LN2_32_CEIL), 0))

\* safeMul asserting x * y <= 2^256 where the source asserts x * y < 2^256
safeMulInclusive(x, y) ==
    Bind(Mul(x, y), LAMBDA xy :
        IF ~Le(xy, Shl(ONE, WordBits)) THEN Raise("safeMul") ELSE Ret(xy, BitLen(xy)))

safeMul(x, y) ==
    Bind(Mul(x, y), LAMBDA xy :
        IF ~Lt(xy, Shl(ONE, WordBits)) THEN Raise("safeMul") ELSE Ret(xy, BitLen(xy)))

MAX_EXP_STEP == Hex(<<\heb5e, \hc597, \h5959, \hc565>>)  \* 0xeb5ec5975959c565

\* maxExp = (maxExp * 0xeb5ec5975959c565) >> (64-2)
ScaleMaxExp(maxExp) == Shr(Mul(maxExp, MAX_EXP_STEP), 64 - 2)

\* the coefficients of fixedExpUnsafe, in the order of its statements
Coefficients ==
    <<
       Hex(<<\hde1b, \hc4d1, \h9efc, \hac82, \h445d, \ha75b, \h0000, \h0000>>),  \* 0xde1bc4d19efcac82445da75b00000000
       Hex(<<\h6f0d, \he268, \hcf7e, \h5641, \h222e, \hd3ad, \h8000, \h0000>>),  \* 0x6f0de268cf7e5641222ed3ad80000000
       Hex(<<\h2504, \ha0cd, \h9a7f, \h7215, \hb60f, \h9be4, \h8000, \h0000>>),  \* 0x2504a0cd9a7f7215b60f9be480000000
       Hex(<<\h0941, \h2833, \h669f, \hdc85, \h6d83, \he6f9, \h2000, \h0000>>),  \* 0x9412833669fdc856d83e6f920000000
       Hex(<<\h01d9, \hd4d7, \h1486, \h5f4d, \he2b3, \hfafe, \ha000, \h0000>>),  \* 0x1d9d4d714865f4de2b3fafea0000000
       Hex(<<\h004e, \hf8ce, \h836b, \hba8c, \hfb1d, \hff2a, \h7000, \h0000>>),  \* 0x4ef8ce836bba8cfb1dff2a70000000
       Hex(<<\h000b, \h481d, \h807d, \h1aa6, \h6d04, \h4906, \h1000, \h0000>>),  \* 0xb481d807d1aa66d04490610000000
       Hex(<<\h0001, \h6903, \hb00f, \ha354, \hcda0, \h8920, \hc200, \h0000>>),  \* 0x16903b00fa354cda08920c2000000
       Hex(<<\h281c, \hdaac, \h677b, \h334a, \hb9e7, \h3200, \h0000>>),  \* 0x281cdaac677b334ab9e732000000
       Hex(<<\h0402, \he2aa, \hd725, \heb87, \h78fd, \h8500, \h0000>>),  \* 0x402e2aad725eb8778fd85000000
       Hex(<<\h005d, \h5a6c, \h9f31, \hfe23, \h96a2, \haf00, \h0000>>),  \* 0x5d5a6c9f31fe2396a2af000000
       Hex(<<\h0007, \hc789, \h0d44, \h2a82, \hf738, \h3940, \h0000>>),  \* 0x7c7890d442a82f73839400000
       Hex(<<\h9931, \hed54, \h0345, \h26b5, \h8e40, \h0000>>),  \* 0x9931ed54034526b58e400000
       Hex(<<\h0af1, \h47cf, \h24ce, \h150c, \hf7e0, \h0000>>),  \* 0xaf147cf24ce150cf7e00000
       Hex(<<\h00ba, \hc085, \h46b8, \h67cd, \haa20, \h0000>>),  \* 0xbac08546b867cdaa200000
       Hex(<<\h000b, \hac08, \h546b, \h867c, \hdaa2, \h0000>>),  \* 0xbac08546b867cdaa20000
       Hex(<<\hafc4, \h4133, \h8061, \hb282, \h0000>>),  \* 0xafc441338061b2820000
       Hex(<<\h09c3, \hcabb, \hc005, \h6d79, \h0000>>),  \* 0x9c3cabbc0056d790000
       Hex(<<\h0083, \h9168, \h3287, \h05c3, \h0000>>),  \* 0x839168328705c30000
       Hex(<<\h0006, \h9412, \h0286, \hc049, \hc000>>),  \* 0x694120286c049c000
       Hex(<<\h5031, \h9e98, \hb3d2, \hc000>>),  \* 0x50319e98b3d2c000
       Hex(<<\h03a5, \h2a1e, \h36b8, \h2000>>),  \* 0x3a52a1e36b82000
       Hex(<<\h0028, \h9286, \he0fc, \he000>>),  \* 0x289286e0fce000
       Hex(<<\h0001, \hb0c5, \h9eb5, \h3400>>),  \* 0x1b0c59eb53400
       Hex(<<\h114f, \h95b5, \h5400>>),  \* 0x114f95b55400
       Hex(<<\h00aa, \h7210, \hd200>>),  \* 0xaa7210d200
       Hex(<<\h0006, \h5013, \h9600>>),  \* 0x650139600
       Hex(<<\h39b7, \h8e80>>),  \* 0x39b78e80
       Hex(<<\h01fd, \h8080>>),  \* 0x1fd8080
       Hex(<<\h0010, \hfbc0>>),  \* 0x10fbc0
       Hex(<<\h8c40>>),  \* 0x8c40
       Hex(<<\h0462>>),  \* 0x462
       Hex(<<\h0022>>)  \* 0x22
    >>

\* fixedExpUnsafe starting res at the first coefficient, not upshifted
fixedExpUnsafeNoUpshift(_x, _precision) ==
    LET c0   == Coefficients[1]
        res0 == c0
    IN  Bind(Mul(_x, c0), LAMBDA t0 :
        Bind(Iterate(LAMBDA i, st :
                         Bind(Mul(st.xi, _x), LAMBDA sq :
                         Bind(Mul(Shr(sq, _precision), Coefficients[i]), LAMBDA t :
                             LET xi  == Shr(sq, _precision)
                                 res == Add(st.res, t)
                             IN  [xi |-> xi, res |-> res,
                                  peak |-> Max(Max(st.peak, BitLen(sq)),
                                               Max(BitLen(t), BitLen(res)))])),
                     2, Len(Coefficients) - 1,
                     [xi |-> _x, res |-> Add(res0, t0),
                      peak |-> Max(BitLen(res0), Max(BitLen(t0), BitLen(Add(res0, t0))))]),
             LAMBDA last : Ret(Div(last.res, c0), last.peak)))

fixedExpUnsafe(_x, _precision) ==
    LET c0   == Coefficients[1]
        res0 == Shl(c0, _precision)
    IN  Bind(Mul(_x, c0), LAMBDA t0 :
        Bind(Iterate(LAMBDA i, st :
                         Bind(Mul(st.xi, _x), LAMBDA sq :
                         Bind(Mul(Shr(sq, _precision), Coefficients[i]), LAMBDA t :
                             LET xi  == Shr(sq, _precision)
                                 res == Add(st.res, t)
                             IN  [xi |-> xi, res |-> res,
                                  peak |-> Max(Max(st.peak, BitLen(sq)),
                                               Max(BitLen(t), BitLen(res)))])),
                     2, Len(Coefficients) - 1,
                     [xi |-> _x, res |-> Add(res0, t0),
                      peak |-> Max(BitLen(res0), Max(BitLen(t0), BitLen(Add(res0, t0))))]),
             LAMBDA last : Ret(Div(last.res, c0), last.peak)))

\* len(range(32, _precision, 2))
ExpSteps(_precision) == IF _precision <= 32 THEN 0 ELSE (_precision - 32 + 1) \div 2

\* fixedExp asserting _x < maxExp where the source asserts _x <= maxExp
fixedExpStrict(_x, _precision) ==
    LET maxExp == Iterate(LAMBDA p, m : ScaleMaxExp(m), 0, ExpSteps(_precision),
                          MAX_FIXED_EXP_32)
    IN  IF ~Lt(_x, maxExp) THEN Raise("fixedExp")
        ELSE fixedExpUnsafe(_x, _precision)

fixedExp(_x, _precision) ==
    LET maxExp == Iterate(LAMBDA p, m : ScaleMaxExp(m), 0, ExpSteps(_precision),
                          MAX_FIXED_EXP_32)
    IN  IF ~Le(_x, maxExp) THEN Raise("fixedExp")
        ELSE fixedExpUnsafe(_x, _precision)

power(_baseN, _baseD, _expN, _expD, _precision) ==
    Bind(ln(_baseN, _baseD, _precision), LAMBDA logbase :
        IF ~logbase.ok THEN logbase
        ELSE Bind(safeMul(logbase.val, _expN), LAMBDA prod :
            IF ~prod.ok THEN prod
            ELSE Bind(fixedExp(Div(prod.val, _expD), _precision), LAMBDA exp :
                IF ~exp.ok THEN exp
                ELSE Ret(exp.val, Max(logbase.peak, Max(prod.peak, exp.peak))))))

\* calculateBestPrecision returning precision + 32 where the source returns
\* precision + 32 - 2
calculateBestPrecisionAhead(_baseN, _baseD, _expN, _expD) ==
    Bind(lnUpperBound32(_baseN, _baseD), LAMBDA bound :
        IF ~bound.ok THEN bound
        ELSE Bind(Mul(bound.val, _expN), LAMBDA maxVal :
             Bind(Iterate(LAMBDA k, st :
                              IF st.broke THEN st
                              ELSE IF Lt(st.maxExp, Div(Shl(maxVal, 2 * k), _expD))
                              THEN [st EXCEPT !.broke = TRUE, !.precision = 2 * k]
                              ELSE [st EXCEPT !.maxExp = ScaleMaxExp(st.maxExp),
                                              !.precision = 2 * k],
                          0, 16, [maxExp |-> MAX_FIXED_EXP_32, broke |-> FALSE,
                                  precision |-> 0]),
                  LAMBDA loop :
                      IF ~loop.broke THEN Ret(64 - 2, 0)
                      ELSE IF loop.precision = 0 THEN Ret(32, 0)
                      ELSE Ret(loop.precision + 32, 0))))

\* calculateBestPrecision without the special case of a stop at precision 0
calculateBestPrecisionNoFloor(_baseN, _baseD, _expN, _expD) ==
    Bind(lnUpperBound32(_baseN, _baseD), LAMBDA bound :
        IF ~bound.ok THEN bound
        ELSE Bind(Mul(bound.val, _expN), LAMBDA maxVal :
             Bind(Iterate(LAMBDA k, st :
                              IF st.broke THEN st
                              ELSE IF Lt(st.maxExp, Div(Shl(maxVal, 2 * k), _expD))
                              THEN [st EXCEPT !.broke = TRUE, !.precision = 2 * k]
                              ELSE [st EXCEPT !.maxExp = ScaleMaxExp(st.maxExp),
                                              !.precision = 2 * k],
                          0, 16, [maxExp |-> MAX_FIXED_EXP_32, broke |-> FALSE,
                                  precision |-> 0]),
                  LAMBDA loop :
                      IF ~loop.broke THEN Ret(64 - 2, 0)
                      ELSE Ret(loop.precision + 32 - 2, 0))))

calculateBestPrecision(_baseN, _baseD, _expN, _expD) ==
    Bind(lnUpperBound32(_baseN, _baseD), LAMBDA bound :
        IF ~bound.ok THEN bound
        ELSE Bind(Mul(bound.val, _expN), LAMBDA maxVal :
             Bind(Iterate(LAMBDA k, st :
                              IF st.broke THEN st
                              ELSE IF Lt(st.maxExp, Div(Shl(maxVal, 2 * k), _expD))
                              THEN [st EXCEPT !.broke = TRUE, !.precision = 2 * k]
                              ELSE [st EXCEPT !.maxExp = ScaleMaxExp(st.maxExp),
                                              !.precision = 2 * k],
                          0, 16, [maxExp |-> MAX_FIXED_EXP_32, broke |-> FALSE,
                                  precision |-> 0]),
                  LAMBDA loop :
                      IF ~loop.broke THEN Ret(64 - 2, 0)
                      ELSE IF loop.precision = 0 THEN Ret(32, 0)
                      ELSE Ret(loop.precision + 32 - 2, 0))))

----------------------------------------------------------------------------
(* Calls.  A state holds one call: the function, its arguments and, once   *)
(* the call has run, what it returned.  An integer argument is held as the *)
(* pair <<k, d>> that stands for 2^k + d.                                  *)

MaxDelta == 1

Pow2(k) == Shl(ONE, k)

Val(kd) ==
    IF kd[2] >= 0 THEN Add(Pow2(kd[1]), Big(kd[2]))
    ELSE Sub(Pow2(kd[1]), Big(-kd[2]))

\* the naturals within MaxDelta of 2^k, for k in bits
Around(bits) ==
    {kd \in bits \X ((-MaxDelta)..MaxDelta) : kd[1] >= 8 \/ 2^kd[1] + kd[2] >= 0}

NoRet == [ok |-> FALSE, at |-> "not called", val |-> << >>, peak |-> 0]

Called(f) == pc = "done" /\ fn = f

----------------------------------------------------------------------------
(* floorLog2 on 2^k - 1 .. 2^k + MaxDelta for every bit k of a 256-bit word *)

FloorLog2Args == {<<<<k, d>>>> : k \in 0..(WordBits - 1), d \in (-1)..MaxDelta}

InitFloorLog2 ==
    pc = "call" /\ fn = "floorLog2" /\ args \in FloorLog2Args /\ ret = NoRet

CallFloorLog2 ==
    /\ pc = "call" /\ fn = "floorLog2"
    /\ ret' = Ret(floorLog2(Val(args[1])), 0)
    /\ pc' = "done"
    /\ UNCHANGED <<fn, args>>

SpecFloorLog2 == InitFloorLog2 /\ [][CallFloorLog2]_vars

\* C8 as stated: floorLog2(2^k) = k for k in [0, 255] and floorLog2(2^k + 1) = k
\* for k in [0, 254].
C8_FloorLog2_AsStated ==
    Called("floorLog2") =>
        /\ args[1][2] = 0 => ret.val = args[1][1]
        /\ (args[1][2] = 1 /\ args[1][1] <= WordBits - 2) => ret.val = args[1][1]

\* C8 (amended): floorLog2(2^k) = k for all k in [0, 255], floorLog2(2^k + 1) = k
\* for all k in [1, 254], and floorLog2(2^0 + 1) = floorLog2(2) = 1.
C8_FloorLog2 ==
    Called("floorLog2") =>
        /\ args[1][2] = 0 => ret.val = args[1][1]
        /\ (args[1][2] = 1 /\ args[1][1] >= 1 /\ args[1][1] <= WordBits - 2)
               => ret.val = args[1][1]
        /\ args[1] = <<0, 1>> => ret.val = 1

C8_Witness == Called("floorLog2") /\ args[1] = <<WordBits - 2, 1>> /\ ret.val = WordBits - 2

----------------------------------------------------------------------------
(* safeMul on pairs of 2^a + d, 2^b + e around the 256-bit boundary *)

SafeMulBits == {0, 1, 64, 127, 128, 129, 255, 256}

SafeMulArgs ==
    {<<x, y>> : x \in Around(SafeMulBits), y \in Around(SafeMulBits)}

InitSafeMul ==
    pc = "call" /\ fn = "safeMul" /\ args \in SafeMulArgs /\ ret = NoRet

CallSafeMul ==
    /\ pc = "call" /\ fn = "safeMul"
    /\ ret' = safeMul(Val(args[1]), Val(args[2]))
    /\ pc' = "done"
    /\ UNCHANGED <<fn, args>>

SpecSafeMul == InitSafeMul /\ [][CallSafeMul]_vars

Pos(n) == IF n > 0 THEN n ELSE 0

\* (2^a + d) * (2^b + e) = 2^(a+b) + e*2^a + d*2^b + d*e, by shifts and sums alone
ExpandedProduct(x, y) ==
    LET a == x[1]
        d == x[2]
        b == y[1]
        e == y[2]
        plus  == Add(Add(Pow2(a + b), Shl(Big(Pos(e)), a)),
                     Add(Shl(Big(Pos(d)), b), Big(Pos(d * e))))
        minus == Add(Add(Shl(Big(Pos(-e)), a), Shl(Big(Pos(-d)), b)), Big(Pos(-(d * e))))
    IN  Sub(plus, minus)

\* C9: safeMul(x, y) fails with an assertion error whenever the true product
\* x * y >= 2^256, and otherwise returns exactly x * y.
C9_SafeMul ==
    Called("safeMul") =>
        LET xy == ExpandedProduct(args[1], args[2])
        IN  IF Lt(xy, Pow2(WordBits)) THEN ret.ok /\ ret.val = xy
            ELSE ~ret.ok /\ ret.at = "safeMul"

\* 2^128 * 2^128 = 2^256 is refused, (2^128 - 1) * (2^128 + 1) = 2^256 - 1 is returned
C9_Witness ==
    /\ Called("safeMul")
    /\ \/ args = <<<<128, 0>>, <<128, 0>>>> /\ ~ret.ok
       \/ args = <<<<128, -1>>, <<128, 1>>>> /\ ret.ok /\ BitLen(ret.val) = WordBits

----------------------------------------------------------------------------
(* ln(numerator, denominator, precision) *)

MaxPrecision == 62

LnBits == {0, 1, 2, 100, 194, 224, 256}

LnPrecisions == {0, 32, MaxPrecision}

LnArgs ==
    {<<n, d, p>> : n \in Around(LnBits), d \in Around(LnBits \ {256}), p \in LnPrecisions}
    \cup {<<n, n, p>> : n \in Around({0, 100, 193, 255}), p \in 0..MaxPrecision}

InitLn == pc = "call" /\ fn = "ln" /\ args \in LnArgs /\ ret = NoRet

CallLn ==
    /\ pc = "call" /\ fn = "ln"
    /\ ret' = ln(Val(args[1]), Val(args[2]), args[3])
    /\ pc' = "done"
    /\ UNCHANGED <<fn, args>>

SpecLn == InitLn /\ [][CallLn]_vars

\* denominator > numerator, or numerator = 0, or denominator = 0, or
\* numerator >= 2^(256 - precision), or denominator >= 2^(256 - precision)
LnRejects(n, d, p) ==
    \/ Lt(n, d)
    \/ n = << >>
    \/ d = << >>
    \/ Le(Pow2(WordBits - p), n)
    \/ Le(Pow2(WordBits - p), d)

\* C4: ln fails with an assertion error, returning no value, whenever
\* denominator > numerator, or numerator = 0, or denominator = 0, or either is
\* >= 2^(256 - precision); for every other input it returns
\* fixedLoge((numerator << precision) / denominator, precision) without failing.
C4_LnDomain ==
    Called("ln") =>
        LET n == Val(args[1])
            d == Val(args[2])
            p == args[3]
        IN  IF LnRejects(n, d, p) THEN ~ret.ok /\ ret.at = "ln" /\ ret.val = << >>
            ELSE ret.ok /\ ret.val = fixedLoge(Div(Shl(n, p), d), p).val

\* a call that passes every assert and returns a nonzero logarithm, and one
\* refused only for numerator = 2^(256 - precision)
C4_Witness ==
    /\ Called("ln")
    /\ \/ args = <<<<224, -1>>, <<1, 1>>, 32>> /\ ret.ok /\ ret.val # << >>
       \/ args = <<<<224, 0>>, <<1, 1>>, 32>> /\ ~ret.ok

\* C5 as stated: ln(numerator, numerator, precision) = 0 for any nonzero
\* numerator below 2^256 and every precision in [0, 62].
C5_LnOfOne_AsStated ==
    (/\ Called("ln")
     /\ args[1] = args[2]
     /\ Val(args[1]) # << >>
     /\ Lt(Val(args[1]), Pow2(WordBits)))
        => ret.ok /\ ret.val = << >>

\* C5 (amended): ln(numerator, numerator, precision) = 0 for any nonzero
\* numerator below 2^(256 - precision) and every precision in [0, 62]; from
\* 2^(256 - precision) on the call fails ln's assert.
C5_LnOfOne ==
    (/\ Called("ln")
     /\ args[1] = args[2]
     /\ Val(args[1]) # << >>)
        => IF Lt(Val(args[1]), Pow2(WordBits - args[3]))
           THEN ret.ok /\ ret.val = << >>
           ELSE ~ret.ok /\ ret.at = "ln"

C5_Witness ==
    /\ Called("ln")
    /\ args = <<<<193, 1>>, <<193, 1>>, MaxPrecision>>
    /\ ret.ok /\ ret.val = << >>

----------------------------------------------------------------------------
(* lnUpperBound32(baseN, baseD) beside ln(baseN, baseD, 32) *)

\* baseN / baseD at the three brackets' limits: 2.71828, 7.38905, 20.08553
BracketEdges ==
    {<<<<0, n - 1>>, <<0, 100000 - 1>>>> :
        n \in {271828, 271829, 738905, 738906, 2008553, 2008554}}

BoundArgs ==
    {<<n, d>> : n \in Around({1, 2, 3, 4, 5, 8, 64, 224}),
                d \in {<<0, 0>>, <<0, 1>>, <<1, 1>>, <<60, 1>>}}
    \cup BracketEdges

InitLnUpperBound32 ==
    pc = "call" /\ fn = "lnUpperBound32" /\ args \in BoundArgs /\ ret = NoRet

CallLnUpperBound32 ==
    /\ pc = "call" /\ fn = "lnUpperBound32"
    /\ ret' = [bound |-> lnUpperBound32(Val(args[1]), Val(args[2])),
               ln    |-> ln(Val(args[1]), Val(args[2]), 32)]
    /\ pc' = "done"
    /\ UNCHANGED <<fn, args>>

SpecLnUpperBound32 == InitLnUpperBound32 /\ [][CallLnUpperBound32]_vars

\* C10: for all baseN > baseD >= 1 with baseN < 2^224,
\* lnUpperBound32(baseN, baseD) >= ln(baseN, baseD, 32), in the three manual
\* brackets and in the general branch; lnUpperBound32(3, 1) = 2 << 32.
C10_LnUpperBound ==
    Called("lnUpperBound32") =>
        LET n == Val(args[1])
            d == Val(args[2])
        IN  /\ (Lt(d, n) /\ Le(ONE, d) /\ Lt(n, Pow2(224)))
                  => ret.bound.ok /\ ret.ln.ok /\ Le(ret.ln.val, ret.bound.val)
            /\ (n = Big(3) /\ d = ONE) => ret.bound.val = Shl(Big(2), 32)

\* the general branch, at a power of two plus one
C10_Witness ==
    /\ Called("lnUpperBound32")
    /\ args = <<<<64, 1>>, <<0, 0>>>>
    /\ ret.bound.val = Mul(Big(65), LN2_32_CEIL)
    /\ ret.ln.ok /\ Lt(Mul(Big(64), Hex(<<\hb172, \h17f7>>)), ret.ln.val)

----------------------------------------------------------------------------
(* fixedExp(x, 32), x given by its distance 2^k + d from 0 (side 0), below   *)
(* MAX_FIXED_EXP_32 (side -1) or above it (side 1)                           *)

FromMax(kd, side) ==
    IF side = 0 THEN Val(kd)
    ELSE IF side = 1 THEN Add(MAX_FIXED_EXP_32, Val(kd))
    ELSE Sub(MAX_FIXED_EXP_32, Val(kd))

FixedExpArgs ==
    {<<kd, side, 32>> : kd \in Around({0, 1, 4, 8, 16, 20, 30, 37}), side \in {-1, 0, 1}}

InitFixedExp ==
    pc = "call" /\ fn = "fixedExp" /\ args \in FixedExpArgs /\ ret = NoRet

CallFixedExp ==
    /\ pc = "call" /\ fn = "fixedExp"
    /\ ret' = fixedExp(FromMax(args[1], args[2]), args[3])
    /\ pc' = "done"
    /\ UNCHANGED <<fn, args>>

SpecFixedExp == InitFixedExp /\ [][CallFixedExp]_vars

\* C7: fixedExp(x, 32) fails with an assertion error for every
\* x > MAX_FIXED_EXP_32 = 242329958953, and for every x <= MAX_FIXED_EXP_32 it
\* returns fixedExpUnsafe(x, 32) with no intermediate value (xi * _x,
\* xi * coefficient, res) reaching 2^256.
C7_FixedExp32 ==
    /\ MAX_FIXED_EXP_32 = Add(Mul(Big(242329), Big(1000000)), Big(958953))
    /\ Called("fixedExp") =>
           LET x == FromMax(args[1], args[2])
           IN  IF Lt(MAX_FIXED_EXP_32, x) THEN ~ret.ok /\ ret.at = "fixedExp"
               ELSE /\ ret.ok
                    /\ ret.peak <= WordBits
                    /\ ret.val = fixedExpUnsafe(x, 32).val

\* x = MAX_FIXED_EXP_32 is accepted and fills the 256 bits
C7_Witness ==
    /\ Called("fixedExp")
    /\ args = <<<<0, -1>>, 1, 32>>
    /\ ret.ok /\ ret.peak = WordBits

----------------------------------------------------------------------------
(* power(baseN, baseD, expN, expD, precision) *)

PowerPrecisions == {0, 31, 32, 33, 34, MaxPrecision}

PowerArgs ==
    {<<bN, bD, eN, eD, p>> :
        bN \in Around({2, 100}), bD \in {<<0, 0>>, <<1, 1>>},
        eN \in {<<0, -1>>, <<0, 0>>, <<1, 0>>, <<8, 0>>}, eD \in {<<0, 0>>, <<0, 1>>},
        p \in PowerPrecisions}
    \cup {<<<<0, 0>>, <<0, 0>>, eN, eD, p>> :
        eN \in Around({0, 255}), eD \in {<<0, 0>>, <<0, 1>>, <<64, 1>>},
        p \in 0..MaxPrecision}

InitPower == pc = "call" /\ fn = "power" /\ args \in PowerArgs /\ ret = NoRet

CallPower ==
    /\ pc = "call" /\ fn = "power"
    /\ ret' = power(Val(args[1]), Val(args[2]), Val(args[3]), Val(args[4]), args[5])
    /\ pc' = "done"
    /\ UNCHANGED <<fn, args>>

SpecPower == InitPower /\ [][CallPower]_vars

\* C1: for every precision in [0, 62] and all inputs below 2^256 with
\* expD >= 1, a call of power either fails with an assertion error or every
\* value it computes on the way is below 2^256.
C1_PowerOverflowSafe ==
    (Called("power") /\ ret.ok) => ret.peak <= WordBits

\* C6: power(1, 1, expN, expD, precision) = 1 << precision for every
\* expN >= 0, every expD >= 1 and every precision in [0, 62]; in particular
\* power(1, 1, 1, 1, 32) = 0x100000000.
C6_PowerOfOne ==
    (Called("power") /\ args[1] = <<0, 0>> /\ args[2] = <<0, 0>>)
        => /\ ret.ok
           /\ ret.val = Shl(ONE, args[5])
           /\ (args[3] = <<0, 0>> /\ args[4] = <<0, 0>> /\ args[5] = 32)
                  => ret.val = Hex(<<\h0001, \h0000, \h0000>>)

C6_Witness ==
    /\ Called("power")
    /\ args = <<<<0, 0>>, <<0, 0>>, <<255, 1>>, <<64, 1>>, MaxPrecision>>
    /\ ret.ok /\ BitLen(ret.val) = MaxPrecision + 1

----------------------------------------------------------------------------
(* calculateBestPrecision(baseN, baseD, expN, expD), then power at the       *)
(* precision it returned                                                     *)

MaxExpN == 60

PrecisionArgs ==
    {<<bN, bD, eN, eD>> :
        bN \in {<<1, 0>>, <<1, 1>>, <<64, 1>>}, bD \in {<<0, 0>>},
        eN \in {<<0, j>> : j \in {j \in (-1)..(MaxExpN - 1) : j % 3 = 0} \cup {-1}},
        eD \in {<<0, 0>>, <<0, 1>>}}
    \cup {<<bN, <<1, 1>>, <<0, 0>>, <<1, 0>>>> : bN \in Around({1, 200})}

InitPrecision ==
    pc = "call" /\ fn = "calculateBestPrecision" /\ args \in PrecisionArgs /\ ret = NoRet

CallPrecision ==
    /\ pc = "call" /\ fn = "calculateBestPrecision"
    /\ ret' = Bind(calculateBestPrecision(Val(args[1]), Val(args[2]),
                                        Val(args[3]), Val(args[4])),
                 LAMBDA best :
                     [best  |-> best,
                      power |-> IF best.ok
                                THEN power(Val(args[1]), Val(args[2]),
                                           Val(args[3]), Val(args[4]), best.val)
                                ELSE NoRet])
    /\ pc' = "done"
    /\ UNCHANGED <<fn, args>>

SpecPrecision == InitPrecision /\ [][CallPrecision]_vars

\* baseN > baseD >= 1, expN >= 0, expD >= 1
PrecisionDomain == Lt(Val(args[2]), Val(args[1])) /\ Le(ONE, Val(args[2])) /\ Le(ONE, Val(args[4]))

\* the candidate p is found unsafe: maxExp, scaled p/2 times, is below
\* (lnUpperBound32(baseN, baseD) * expN << p) / expD
Unsafe(p) ==
    LET maxVal == Mul(lnUpperBound32(Val(args[1]), Val(args[2])).val, Val(args[3]))
        maxExp == Iterate(LAMBDA i, m : ScaleMaxExp(m), 0, p \div 2, MAX_FIXED_EXP_32)
    IN  Lt(maxExp, Div(Shl(maxVal, p), Val(args[4])))

Candidates == {2 * k : k \in 0..15}

\* the candidate the search stops at: the first unsafe one (64 when none is)
StopsAt ==
    IF \A p \in Candidates : ~Unsafe(p) THEN 64
    ELSE CHOOSE p \in Candidates : Unsafe(p) /\ \A q \in Candidates : q < p => ~Unsafe(q)

\* C2 as stated: whenever ln(baseN, baseD, P) and safeMul(logbase, expN)
\* succeed, power(baseN, baseD, expN, expD, P) does not fail at fixedExp's
\* assertion, for P = calculateBestPrecision(baseN, baseD, expN, expD), also
\* when the search stopped at the first candidate and 32 was returned.
C2_BestPrecisionSafe_AsStated ==
    (Called("calculateBestPrecision") /\ PrecisionDomain)
        => ret.best.ok /\ ret.power.at # "fixedExp"

\* C2 (amended): the same, whenever the search does not stop at the first
\* candidate p = 0, that is whenever
\* lnUpperBound32(baseN, baseD) * expN / expD <= MAX_FIXED_EXP_32.
C2_BestPrecisionSafe ==
    (Called("calculateBestPrecision") /\ PrecisionDomain /\ StopsAt # 0)
        => ret.best.ok /\ ret.power.at # "fixedExp"

\* the search stopped at a candidate past 0 and power went through at the
\* precision returned
C2_Witness ==
    /\ Called("calculateBestPrecision")
    /\ args = <<<<1, 1>>, <<0, 0>>, <<0, 15>>, <<0, 0>>>>
    /\ StopsAt \in 2..30
    /\ ret.best.val = StopsAt + 30
    /\ ret.power.ok

\* C3: for baseN > baseD >= 1, expN >= 0 and expD >= 1, calculateBestPrecision
\* returns a value in {32, 34, ..., 62}: 32 when the search stops at candidate
\* p = 0, p + 30 when it stops at a candidate p in {2, 4, ..., 30}, and 62 when
\* no candidate of the 16 is found unsafe.
C3_BestPrecisionRange ==
    (Called("calculateBestPrecision") /\ PrecisionDomain)
        => /\ ret.best.ok
           /\ ret.best.val \in {32 + 2 * k : k \in 0..15}
           /\ ret.best.val = (IF StopsAt = 0 THEN 32
                              ELSE IF StopsAt = 64 THEN 62
                              ELSE StopsAt + 30)

C3_Witness ==
    /\ Called("calculateBestPrecision")
    /\ StopsAt = 30
    /\ ret.best.val = 60

====
